---------------------------- MODULE Spec2Model ----------------------------
(***************************************************************************)
(* A model of src/doc.rs: EpubDoc, the document built from an epub archive *)
(* (container descriptor -> package file -> manifest / spine / metadata),  *)
(* its resource accessors and its navigation cursor.                       *)
(*                                                                         *)
(* Strings that the code takes apart or concatenates (paths, hrefs) are    *)
(* sequences of one-character strings; identifiers, media types, metadata  *)
(* keys and error messages are atomic strings.                             *)
(***************************************************************************)
EXTENDS Integers, Sequences, FiniteSets, TLC

(***************************************************************************)
(* Bounds of the model.                                                    *)
(***************************************************************************)
MaxPathLen == 5
MaxManifest == 2
MaxSpine == 4
MaxMeta == 2

(***************************************************************************)
(* Values.                                                                 *)
(***************************************************************************)
None == <<>>
Some(v) == <<v>>
Opt(S) == {None} \cup {Some(v) : v \in S}

Ok(v) == [ok |-> TRUE, val |-> v]
Err(e) == [ok |-> FALSE, err |-> e]

Sep == "/"
PathChars == {"a", "b", Sep}
Paths == UNION {[1..k -> PathChars] : k \in 0..MaxPathLen}

Ids == {"x", "y"}
IdRefs == Ids \cup {"z"}
Hrefs == {<<"h">>, <<"g">>}
Mimes == {"m", "n"}
Pages == 0..(MaxSpine + 1)

(***************************************************************************)
(* The consumed interfaces: the xml element tree (xmlutils) and the zip    *)
(* archive (archive::EpubArchive).  An element is a record                 *)
(*   [name, attrs, text]  with attrs a function from the attribute names   *)
(* that are present to their values.  An archive is a record               *)
(*   [opens, container, package]: whether the file opens as a zip, the     *)
(* container descriptor and the package file ("missing", "malformed" or    *)
(* "xml" with the sections the package holds).                             *)
(***************************************************************************)
\* An error of the archive or of the xml parser, and one of doc.rs itself.
ExtError(kind, what) == [kind |-> kind, error |-> what]
DocError(msg) == [kind |-> "DocError", error |-> msg]

Element(n, as, t) == [name |-> n, attrs |-> as, text |-> t]

NoAttrs == [a \in {} |-> None]

\* xmlutils' XMLNode::get_attr: the value of an attribute, or an error.
get_attr(item, name) ==
    IF name \in DOMAIN item.attrs
    THEN Ok(item.attrs[name])
    ELSE Err(ExtError("AttributeMissing", name))

\* xmlutils' XMLNode::find on a tree whose sections are optional: the
\* children of the section called name, or an error.
find(tree, name) ==
    IF tree[name] = None
    THEN Err(ExtError("ElementNotFound", name))
    ELSE Ok(tree[name][1])

\* The path the container descriptor gives for the package file, if any.
PackagePath(arch) ==
    IF /\ arch.container.rootfile # None
       /\ "full-path" \in DOMAIN arch.container.rootfile[1].attrs
    THEN Some(arch.container.rootfile[1].attrs["full-path"])
    ELSE None

\* The directory of a path: all of it up to and including the last separator.
TrueDir(p) ==
    LET seps == {i \in 1..Len(p) : p[i] = Sep}
    IN  IF seps = {} THEN <<>>
        ELSE SubSeq(p, 1, CHOOSE i \in seps : \A j \in seps : j <= i)

\* The entries of the archive: the package file where the container says it
\* is, and the files that the manifest's hrefs name, beside the package file.
ResourceFiles(arch) ==
    IF PackagePath(arch) = None THEN {}
    ELSE {TrueDir(PackagePath(arch)[1]) \o h : h \in Hrefs}

Files(arch) ==
    ResourceFiles(arch) \cup
    (IF arch.package.status = "missing" THEN {} ELSE
        {PackagePath(arch)[i] : i \in DOMAIN PackagePath(arch)})

Bytes(p) == [bytes_of |-> p]
Text(p) == [text_of |-> p]
\* The files whose href is "g" are not UTF-8 text.
IsUtf8(p) == p # <<>> /\ p[Len(p)] # "g"

\* EpubArchive::new: opens the zip file.
EpubArchive_new(arch) ==
    IF arch.opens THEN Ok(arch) ELSE Err(ExtError("FileOpenError", ""))

\* EpubArchive::get_entry
get_entry(arch, p) ==
    IF p \in Files(arch) THEN Ok(Bytes(p)) ELSE Err(ExtError("NotFound", ""))

\* EpubArchive::get_entry_as_str
get_entry_as_str(arch, p) ==
    IF p \notin Files(arch) THEN Err(ExtError("NotFound", ""))
    ELSE IF IsUtf8(p) THEN Ok(Text(p)) ELSE Err(ExtError("DecodeError", ""))

\* EpubArchive::get_container_file: the entry META-INF/container.xml.
get_container_file(arch) ==
    IF arch.container.status = "missing"
    THEN Err(ExtError("NotFound", ""))
    ELSE Ok([container_of |-> arch])

\* XMLReader::parse_xml on the bytes of the container descriptor.
parse_container(arch) ==
    IF arch.container.status = "xml"
    THEN Ok([rootfile |-> arch.container.rootfile])
    ELSE Err(ExtError("MalformedInput", ""))

\* XMLReader::parse_xml on the bytes of the package file.
parse_package(arch) ==
    IF arch.package.status = "xml"
    THEN Ok([manifest |-> arch.package.manifest,
             spine |-> arch.package.spine,
             metadata |-> arch.package.metadata])
    ELSE Err(ExtError("MalformedInput", ""))

(***************************************************************************)
(* doc.rs.  A document (self) is a record                                  *)
(*   [current, spine, resources, metadata, root_base, root_file];          *)
(* the archive it owns is passed beside it.  resources and metadata are    *)
(* functions from the keys present (a HashMap).                            *)
(***************************************************************************)
EmptyMap == [k \in {} |-> None]

\* A mutant of insert: the first value of a key stays (entry().or_insert()).
insert_keep_first(m, k, v) ==
    [x \in DOMAIN m \cup {k} |-> IF x \in DOMAIN m THEN m[x] ELSE v]

\* HashMap::insert: adds the key or overwrites its value.
insert(m, k, v) == [x \in DOMAIN m \cup {k} |-> IF x = k THEN v ELSE m[x]]

Min(S) == CHOOSE i \in S : \A j \in S : i <= j
Max(S) == CHOOSE i \in S : \A j \in S : j <= i

\* regex::Regex::new(r"/").split(text), as the crate's iterator computes it:
\* the piece before each match, then the rest of the text.  The releases of
\* the crate differ on the rest when it is empty: the older ones end without
\* it (last >= text.len()), the later ones yield it; keeps_trailing says
\* which the build has.
RECURSIVE split_from(_, _, _)
split_from(text, last, keeps_trailing) ==
    LET matches == {i \in (last + 1)..Len(text) : text[i] = Sep}
    IN  IF matches = {}
        THEN IF last >= Len(text) /\ ~keeps_trailing
             THEN <<>>
             ELSE <<SubSeq(text, last + 1, Len(text))>>
        ELSE <<SubSeq(text, last + 1, Min(matches) - 1)>>
                 \o split_from(text, Min(matches), keeps_trailing)

split(text, keeps_trailing) == split_from(text, 0, keeps_trailing)

\* A mutant of base_path: the whole directory of the package file, every
\* segment but the last.
base_path_whole_dir(root_file, keeps_trailing) ==
    IF TrueDir(root_file) = <<>> THEN <<>>
    ELSE SubSeq(TrueDir(root_file), 1, Len(TrueDir(root_file)) - 1)

\* new, lines 91-95: the rootfile base directory.
base_path(root_file, keeps_trailing) ==
    LET iter == split(root_file, keeps_trailing)
        count == Len(iter)
    IN  IF count >= 2 THEN iter[count - 1] ELSE <<>>

\* get_root_file
get_root_file(arch) ==
    LET root == parse_container(arch)
    IN  IF ~root.ok THEN root ELSE
        LET element == find(root.val, "rootfile")
        IN  IF ~element.ok THEN element ELSE
            get_attr(element.val, "full-path")

\* fill_resources, the manifest loop from its i-th child on: self with the
\* items inserted and the loop's result.
RECURSIVE fill_manifest(_, _, _)
fill_manifest(self, childs, i) ==
    IF i > Len(childs) THEN [self |-> self, res |-> Ok(<<>>)] ELSE
    LET item == childs[i]
        id == get_attr(item, "id")
        href == get_attr(item, "href")
        mtype == get_attr(item, "media-type")
    IN  IF ~id.ok THEN [self |-> self, res |-> id]
        ELSE IF ~href.ok THEN [self |-> self, res |-> href]
        ELSE IF ~mtype.ok THEN [self |-> self, res |-> mtype]
        ELSE fill_manifest(
                 [self EXCEPT !.resources =
                     insert(@, id.val, <<self.root_base \o href.val, mtype.val>>)],
                 childs, i + 1)

\* fill_resources, the spine loop from its i-th child on.
RECURSIVE fill_spine(_, _, _)
fill_spine(self, childs, i) ==
    IF i > Len(childs) THEN [self |-> self, res |-> Ok(<<>>)] ELSE
    LET id == get_attr(childs[i], "idref")
    IN  IF ~id.ok THEN [self |-> self, res |-> id]
        ELSE fill_spine([self EXCEPT !.spine = Append(@, id.val)],
                        childs, i + 1)

\* fill_resources, the metadata loop from its i-th child on.
RECURSIVE fill_metadata(_, _, _)
fill_metadata(self, childs, i) ==
    IF i > Len(childs) THEN [self |-> self, res |-> Ok(<<>>)] ELSE
    LET item == childs[i]
    IN  IF item.name = "meta"
        THEN LET k == get_attr(item, "name")
                 v == get_attr(item, "content")
             IN  IF ~k.ok THEN [self |-> self, res |-> k]
                 ELSE IF ~v.ok THEN [self |-> self, res |-> v]
                 ELSE fill_metadata(
                          [self EXCEPT !.metadata = insert(@, k.val, v.val)],
                          childs, i + 1)
        ELSE LET v == IF item.text # None THEN item.text[1] ELSE ""
             IN  fill_metadata(
                     [self EXCEPT !.metadata = insert(@, item.name, v)],
                     childs, i + 1)

\* fill_resources: self as the call leaves it, and the call's result.
fill_resources(self, arch) ==
    LET container == get_entry(arch, self.root_file)
    IN  IF ~container.ok THEN [self |-> self, res |-> container] ELSE
    LET root == parse_package(arch)
    IN  IF ~root.ok THEN [self |-> self, res |-> root] ELSE
    LET manifest == find(root.val, "manifest")
    IN  IF ~manifest.ok THEN [self |-> self, res |-> manifest] ELSE
    LET m == fill_manifest(self, manifest.val, 1)
    IN  IF ~m.res.ok THEN m ELSE
    LET spine == find(root.val, "spine")
    IN  IF ~spine.ok THEN [self |-> m.self, res |-> spine] ELSE
    LET s == fill_spine(m.self, spine.val, 1)
    IN  IF ~s.res.ok THEN s ELSE
    LET metadata == find(root.val, "metadata")
    IN  IF ~metadata.ok THEN [self |-> s.self, res |-> metadata] ELSE
    fill_metadata(s.self, metadata.val, 1)

\* A mutant of new: the result of fill_resources is dropped, and the
\* document is returned as fill_resources left it.
new_ignoring_fill_error(arch, keeps_trailing) ==
    LET archive == EpubArchive_new(arch)
    IN  IF ~archive.ok THEN archive ELSE
    LET container == get_container_file(arch)
    IN  IF ~container.ok THEN container ELSE
    LET root_file == get_root_file(arch)
    IN  IF ~root_file.ok THEN root_file ELSE
    LET doc == [spine |-> <<>>,
                resources |-> EmptyMap,
                metadata |-> EmptyMap,
                root_file |-> root_file.val,
                root_base |-> base_path(root_file.val, keeps_trailing) \o <<Sep>>,
                current |-> 0]
    IN  Ok(fill_resources(doc, arch).self)

\* EpubDoc::new: the document, or the error that aborted its construction.
new(arch, keeps_trailing) ==
    LET archive == EpubArchive_new(arch)
    IN  IF ~archive.ok THEN archive ELSE
    LET container == get_container_file(arch)
    IN  IF ~container.ok THEN container ELSE
    LET root_file == get_root_file(arch)
    IN  IF ~root_file.ok THEN root_file ELSE
    LET doc == [spine |-> <<>>,
                resources |-> EmptyMap,
                metadata |-> EmptyMap,
                root_file |-> root_file.val,
                root_base |-> base_path(root_file.val, keeps_trailing) \o <<Sep>>,
                current |-> 0]
        filled == fill_resources(doc, arch)
    IN  IF ~filled.res.ok THEN filled.res ELSE Ok(filled.self)

\* get_cover_id
get_cover_id(self) ==
    IF "cover" \in DOMAIN self.metadata
    THEN Ok(self.metadata["cover"])
    ELSE Err(DocError("Cover not found"))

\* get_resource_by_path
get_resource_by_path(self, arch, path) == get_entry(arch, path)

\* get_resource
get_resource(self, arch, id) ==
    IF id \notin DOMAIN self.resources
    THEN Err(DocError("id not found"))
    ELSE get_resource_by_path(self, arch, self.resources[id][1])

\* get_cover
get_cover(self, arch) ==
    LET cover_id == get_cover_id(self)
    IN  IF ~cover_id.ok THEN cover_id
        ELSE get_resource(self, arch, cover_id.val)

\* get_resource_str_by_path
get_resource_str_by_path(self, arch, path) == get_entry_as_str(arch, path)

\* get_resource_str
get_resource_str(self, arch, id) ==
    IF id \notin DOMAIN self.resources
    THEN Err(DocError("id not found"))
    ELSE get_resource_str_by_path(self, arch, self.resources[id][1])

\* get_resource_mime
get_resource_mime(self, id) ==
    IF id \in DOMAIN self.resources
    THEN Ok(self.resources[id][2])
    ELSE Err(DocError("id not found"))

\* A mutant of get_resource_mime_by_path: the matching entry's path (v.0)
\* is returned, not its media type (v.1).
get_resource_mime_by_path_returns_path(self, path) ==
    LET hits == {k \in DOMAIN self.resources : self.resources[k][1] = path}
    IN  IF hits = {}
        THEN {Err(DocError("path not found"))}
        ELSE {Ok(self.resources[k][1]) : k \in hits}

\* get_resource_mime_by_path: the results the call can give.  The loop
\* returns at the first entry of self.resources.iter() whose path matches,
\* and a HashMap iterates in an arbitrary order: any matching entry can be
\* the first.
get_resource_mime_by_path(self, path) ==
    LET hits == {k \in DOMAIN self.resources : self.resources[k][1] = path}
    IN  IF hits = {}
        THEN {Err(DocError("path not found"))}
        ELSE {Ok(self.resources[k][2]) : k \in hits}

\* A mutant of get_current_id: the entry after the cursor's.
get_current_id_off_by_one(self) ==
    IF self.current + 2 \in DOMAIN self.spine
    THEN Ok(self.spine[self.current + 2])
    ELSE Err(DocError("current is broken"))

\* get_current_id
get_current_id(self) ==
    IF self.current + 1 \in DOMAIN self.spine
    THEN Ok(self.spine[self.current + 1])
    ELSE Err(DocError("current is broken"))

\* get_current
get_current(self, arch) ==
    LET current_id == get_current_id(self)
    IN  IF ~current_id.ok THEN current_id
        ELSE get_resource(self, arch, current_id.val)

\* get_current_str
get_current_str(self, arch) ==
    LET current_id == get_current_id(self)
    IN  IF ~current_id.ok THEN current_id
        ELSE get_resource_str(self, arch, current_id.val)

\* get_current_mime
get_current_mime(self) ==
    LET current_id == get_current_id(self)
    IN  IF ~current_id.ok THEN current_id
        ELSE get_resource_mime(self, current_id.val)

\* get_current_path
get_current_path(self) ==
    LET current_id == get_current_id(self)
    IN  IF ~current_id.ok THEN current_id
        ELSE IF current_id.val \in DOMAIN self.resources
        THEN Ok(self.resources[current_id.val][1])
        ELSE Err(DocError("Current not found"))

\* A mutant of go_next: the bound is tested without the + 1.
go_next_off_by_one(self) ==
    IF self.current >= Len(self.spine)
    THEN [self |-> self, res |-> Err(DocError("last page"))]
    ELSE [self |-> [self EXCEPT !.current = @ + 1], res |-> Ok(<<>>)]

\* A mutant of go_next: the spine is consumed, its first entry removed, and
\* the cursor stays.
go_next_consumes(self) ==
    IF self.current + 1 >= Len(self.spine)
    THEN [self |-> self, res |-> Err(DocError("last page"))]
    ELSE [self |-> [self EXCEPT !.spine = Tail(@)], res |-> Ok(<<>>)]

\* go_next: self as the call leaves it, and the call's result.
go_next(self) ==
    IF self.current + 1 >= Len(self.spine)
    THEN [self |-> self, res |-> Err(DocError("last page"))]
    ELSE [self |-> [self EXCEPT !.current = @ + 1], res |-> Ok(<<>>)]

\* A mutant of go_prev: the step of go_next, copied.
go_prev_adds(self) ==
    IF self.current < 1
    THEN [self |-> self, res |-> Err(DocError("first page"))]
    ELSE [self |-> [self EXCEPT !.current = @ + 1], res |-> Ok(<<>>)]

\* go_prev
go_prev(self) ==
    IF self.current < 1
    THEN [self |-> self, res |-> Err(DocError("first page"))]
    ELSE [self |-> [self EXCEPT !.current = @ - 1], res |-> Ok(<<>>)]

\* get_num_pages
get_num_pages(self) == Len(self.spine)

\* get_current_page
get_current_page(self) == self.current

\* A mutant of set_current_page: the cursor is assigned before the test.
set_current_page_assign_first(self, n) ==
    IF n >= Len(self.spine)
    THEN [self |-> [self EXCEPT !.current = n],
          res |-> Err(DocError("page not valid"))]
    ELSE [self |-> [self EXCEPT !.current = n], res |-> Ok(<<>>)]

\* A mutant of set_current_page: the test is n > len, not n >= len.
set_current_page_off_by_one(self, n) ==
    IF n > Len(self.spine)
    THEN [self |-> self, res |-> Err(DocError("page not valid"))]
    ELSE [self |-> [self EXCEPT !.current = n], res |-> Ok(<<>>)]

\* set_current_page
set_current_page(self, n) ==
    IF n >= Len(self.spine)
    THEN [self |-> self, res |-> Err(DocError("page not valid"))]
    ELSE [self |-> [self EXCEPT !.current = n], res |-> Ok(<<>>)]

(***************************************************************************)
(* The archives a document is built from.  Each family varies one part of  *)
(* the archive over every value within the bounds, well-formed or not, and *)
(* keeps the others at the baseline.                                       *)
(***************************************************************************)
SeqsUpTo(S, n) == UNION {[1..k -> S] : k \in 0..n}

\* A manifest item; each of its attributes is an option.
Item(id, href, mtype) ==
    LET given == [a \in {"id", "href", "media-type"} |->
                    IF a = "id" THEN id ELSE IF a = "href" THEN href ELSE mtype]
    IN  Element("item",
                [a \in {n \in DOMAIN given : given[n] # None} |-> given[a][1]],
                None)

\* A spine itemref.
ItemRef(idref) ==
    Element("itemref", [a \in {n \in {"idref"} : idref # None} |-> idref[1]], None)

\* A meta element of the metadata section.
Meta(name, content) ==
    LET given == [a \in {"name", "content"} |-> IF a = "name" THEN name ELSE content]
    IN  Element("meta",
                [a \in {n \in DOMAIN given : given[n] # None} |-> given[a][1]],
                None)

RootFile(full_path) ==
    Element("rootfile",
            [a \in {n \in {"full-path"} : full_path # None} |-> full_path[1]],
            None)

Items == {Item(i, h, m) : i \in Opt(Ids), h \in Opt(Hrefs), m \in Opt(Mimes)}
ItemRefs == {ItemRef(r) : r \in Opt(IdRefs)}
MetaChilds ==
    {Meta(n, c) : n \in Opt({"cover"}), c \in Opt({"x", "z"})}
        \cup {Element("title", NoAttrs, t) : t \in Opt({"t"})}

Container(rootfile) == [status |-> "xml", rootfile |-> rootfile]

Archive(container, manifest, spine, metadata) ==
    [opens |-> TRUE,
     container |-> container,
     package |-> [status |-> "xml", manifest |-> manifest,
                  spine |-> spine, metadata |-> metadata]]

BaseContainer == Container(Some(RootFile(Some(<<"a", Sep, "b">>))))
BaseManifest ==
    <<Item(Some("x"), Some(<<"h">>), Some("m")),
      Item(Some("y"), Some(<<"g">>), Some("n"))>>
BaseSpine == <<ItemRef(Some("x")), ItemRef(Some("y"))>>
BaseMetadata == <<Meta(Some("cover"), Some("x")), Element("title", NoAttrs, Some("t"))>>
BaseArchive ==
    Archive(BaseContainer, Some(BaseManifest), Some(BaseSpine), Some(BaseMetadata))

PathArchives ==
    {Archive(Container(Some(RootFile(Some(p)))),
             Some(BaseManifest), Some(BaseSpine), Some(BaseMetadata)) : p \in Paths}
ManifestArchives ==
    {Archive(BaseContainer, Some(m), Some(BaseSpine), Some(BaseMetadata)) :
        m \in SeqsUpTo(Items, MaxManifest)}
SpineArchives ==
    {Archive(BaseContainer, Some(BaseManifest), Some(s), Some(BaseMetadata)) :
        s \in SeqsUpTo(ItemRefs, MaxSpine)}
MetadataArchives ==
    {Archive(BaseContainer, Some(BaseManifest), Some(BaseSpine), Some(d)) :
        d \in SeqsUpTo(MetaChilds, MaxMeta)}
BrokenArchives ==
    {[BaseArchive EXCEPT !.opens = FALSE],
     [BaseArchive EXCEPT !.container.status = "missing"],
     [BaseArchive EXCEPT !.container.status = "malformed"],
     [BaseArchive EXCEPT !.container.rootfile = None],
     [BaseArchive EXCEPT !.container.rootfile = Some(RootFile(None))],
     [BaseArchive EXCEPT !.package.status = "missing"],
     [BaseArchive EXCEPT !.package.status = "malformed"],
     [BaseArchive EXCEPT !.package.manifest = None],
     [BaseArchive EXCEPT !.package.spine = None],
     [BaseArchive EXCEPT !.package.metadata = None]}

Archives ==
    PathArchives \cup ManifestArchives \cup SpineArchives
        \cup MetadataArchives \cup BrokenArchives

(***************************************************************************)
(* The state: the archive file, whether a document was built from it, the  *)
(* document's fields, and the last call with its result.                   *)
(***************************************************************************)
VARIABLES archive, status, current, spine, resources, metadata,
          root_base, root_file, ret

fields == <<current, spine, resources, metadata, root_base, root_file>>
vars == <<archive, status, current, spine, resources, metadata,
          root_base, root_file, ret>>

Self ==
    [current |-> current, spine |-> spine, resources |-> resources,
     metadata |-> metadata, root_base |-> root_base, root_file |-> root_file]

\* The document's fields become those of self.
Becomes(self) ==
    /\ current' = self.current
    /\ spine' = self.spine
    /\ resources' = self.resources
    /\ metadata' = self.metadata
    /\ root_base' = self.root_base
    /\ root_file' = self.root_file

\* The record of a call: its name, its argument (an option), the cursor
\* before it and its result.
Call(op, arg, res) == [op |-> op, arg |-> arg, before |-> current, res |-> res]

\* The paths the accessors are called with: the stored locations, the
\* entries of the archive and a path that is neither.
ArgPaths ==
    {resources[k][1] : k \in DOMAIN resources} \cup Files(archive) \cup {<<"q">>}

Init ==
    /\ archive \in Archives
    /\ status = "unopened"
    /\ current = 0
    /\ spine = <<>>
    /\ resources = EmptyMap
    /\ metadata = EmptyMap
    /\ root_base = <<>>
    /\ root_file = <<>>
    /\ ret = [op |-> "none", arg |-> None, before |-> 0, res |-> Ok(<<>>)]

\* EpubDoc::new(path): the caller gets the document or the error.
New ==
    /\ status = "unopened"
    /\ \E keeps_trailing \in BOOLEAN :
         LET r == new(archive, keeps_trailing)
         IN  IF r.ok
             THEN /\ status' = "ok"
                  /\ Becomes(r.val)
                  /\ ret' = Call("new", None, Ok(<<>>))
             ELSE /\ status' = "failed"
                  /\ UNCHANGED fields
                  /\ ret' = Call("new", None, r)
    /\ UNCHANGED archive

\* A call of a method that takes &self, or that takes &mut self and writes
\* to the archive handle only.
Reads(op, arg, res) ==
    /\ status = "ok"
    /\ ret' = Call(op, arg, res)
    /\ UNCHANGED <<archive, status, fields>>

\* A call of a navigation method, which gives self and a result.
Moves(op, arg, r) ==
    /\ status = "ok"
    /\ Becomes(r.self)
    /\ ret' = Call(op, arg, r.res)
    /\ UNCHANGED <<archive, status>>

GetCoverId == Reads("get_cover_id", None, get_cover_id(Self))
GetCover == Reads("get_cover", None, get_cover(Self, archive))
GetResourceByPath ==
    \E p \in ArgPaths :
        Reads("get_resource_by_path", Some(p), get_resource_by_path(Self, archive, p))
GetResource ==
    \E id \in IdRefs : Reads("get_resource", Some(id), get_resource(Self, archive, id))
GetResourceStrByPath ==
    \E p \in ArgPaths :
        Reads("get_resource_str_by_path", Some(p),
              get_resource_str_by_path(Self, archive, p))
GetResourceStr ==
    \E id \in IdRefs :
        Reads("get_resource_str", Some(id), get_resource_str(Self, archive, id))
GetResourceMime ==
    \E id \in IdRefs : Reads("get_resource_mime", Some(id), get_resource_mime(Self, id))
GetResourceMimeByPath ==
    \E p \in ArgPaths :
        \E r \in get_resource_mime_by_path(Self, p) :
            Reads("get_resource_mime_by_path", Some(p), r)
GetCurrent == Reads("get_current", None, get_current(Self, archive))
GetCurrentStr == Reads("get_current_str", None, get_current_str(Self, archive))
GetCurrentMime == Reads("get_current_mime", None, get_current_mime(Self))
GetCurrentPath == Reads("get_current_path", None, get_current_path(Self))
GetCurrentId == Reads("get_current_id", None, get_current_id(Self))
GetNumPages == Reads("get_num_pages", None, Ok(get_num_pages(Self)))
GetCurrentPage == Reads("get_current_page", None, Ok(get_current_page(Self)))
GoNext == Moves("go_next", None, go_next(Self))
GoPrev == Moves("go_prev", None, go_prev(Self))
SetCurrentPage ==
    \E n \in Pages : Moves("set_current_page", Some(n), set_current_page(Self, n))

Next ==
    \/ New
    \/ GetCoverId
    \/ GetCover
    \/ GetResourceByPath
    \/ GetResource
    \/ GetResourceStrByPath
    \/ GetResourceStr
    \/ GetResourceMime
    \/ GetResourceMimeByPath
    \/ GetCurrent
    \/ GetCurrentStr
    \/ GetCurrentMime
    \/ GetCurrentPath
    \/ GetCurrentId
    \/ GetNumPages
    \/ GetCurrentPage
    \/ GoNext
    \/ GoPrev
    \/ SetCurrentPage

Spec == Init /\ [][Next]_vars

(***************************************************************************)
(* Vocabulary of the properties.                                           *)
(***************************************************************************)
NavOps == {"go_next", "go_prev", "set_current_page"}

Built == status = "ok"

\* The sections of the package file, empty where the file has none.
SectionOf(arch, name) ==
    IF arch.package[name] = None THEN <<>> ELSE arch.package[name][1]

HasAll(item, names) == \A n \in names : n \in DOMAIN item.attrs

\* The archive lacks an element or an attribute that construction reads.
Lacks(arch) ==
    \/ arch.container.rootfile = None
    \/ ~HasAll(arch.container.rootfile[1], {"full-path"})
    \/ \E n \in {"manifest", "spine", "metadata"} : arch.package[n] = None
    \/ \E i \in DOMAIN SectionOf(arch, "manifest") :
          ~HasAll(SectionOf(arch, "manifest")[i], {"id", "href", "media-type"})
    \/ \E i \in DOMAIN SectionOf(arch, "spine") :
          ~HasAll(SectionOf(arch, "spine")[i], {"idref"})
    \/ \E i \in DOMAIN SectionOf(arch, "metadata") :
          /\ SectionOf(arch, "metadata")[i].name = "meta"
          /\ ~HasAll(SectionOf(arch, "metadata")[i], {"name", "content"})

\* The archive opens, and its container descriptor and package file are
\* there and parse.
Readable(arch) ==
    /\ arch.opens
    /\ arch.container.status = "xml"
    /\ arch.package.status = "xml"

\* The cursor is an index of the spine.
CursorValid == 0 <= current /\ current < Len(spine)

\* The key under which a child of the metadata section is stored.
MetaKey(item) == IF item.name = "meta" THEN item.attrs["name"] ELSE item.name

----------------------------------------------------------------------------
\* C1: in a built document with a non-empty spine the cursor is a valid spine
\* index in every reachable state, whatever navigation calls (successful or
\* failing) and accessor calls were made, and it is 0 right after
\* construction.
C1_CursorValid ==
    Built =>
        /\ spine # <<>> => CursorValid
        /\ ret.op = "new" => current = 0

\* C1's case: a failing set_current_page at the last index of a spine of
\* several entries.
C1_Witness ==
    /\ Built
    /\ Len(spine) >= 2
    /\ current = Len(spine) - 1
    /\ ret.op = "set_current_page"
    /\ ~ret.res.ok

----------------------------------------------------------------------------
\* C2: a navigation call fails exactly when the spec says (go_next with
\* cursor + 1 >= len(spine): "last page"; go_prev at 0: "first page";
\* set_current_page(n) with n >= len(spine): "page not valid"), and every
\* failing navigation call leaves the cursor as it was before the call, the
\* empty spine included.
C2_FailingNavigationKeepsCursor ==
    (Built /\ ret.op \in NavOps) =>
        /\ ~ret.res.ok => get_current_page(Self) = ret.before
        /\ (ret.op = "go_next" /\ ret.before + 1 >= Len(spine)) =>
              ret.res = Err(DocError("last page"))
        /\ (ret.op = "go_prev" /\ ret.before = 0) =>
              ret.res = Err(DocError("first page"))
        /\ (ret.op = "set_current_page" /\ ret.arg[1] >= Len(spine)) =>
              ret.res = Err(DocError("page not valid"))

\* C2's case: go_next has failed at the last index, which is not 0.
C2_Witness ==
    /\ Built
    /\ ret.op = "go_next"
    /\ ~ret.res.ok
    /\ ret.before = Len(spine) - 1
    /\ ret.before > 0

----------------------------------------------------------------------------
\* C3: set_current_page(n) succeeds if and only if n < get_num_pages(); when
\* it succeeds get_current_page() is n and get_current_id() is the spine
\* entry at index n, and when it fails the failure is "page not valid".
C3_SetCurrentPage ==
    (Built /\ ret.op = "set_current_page") =>
        LET n == ret.arg[1]
        IN  /\ ret.res.ok <=> n < get_num_pages(Self)
            /\ ret.res.ok =>
                  /\ get_current_page(Self) = n
                  /\ get_current_id(Self) = Ok(spine[n + 1])
            /\ ~ret.res.ok => ret.res = Err(DocError("page not valid"))

\* C3's case: a seek from index 0 to the last of at least three entries.
C3_Witness ==
    /\ Built
    /\ ret.op = "set_current_page"
    /\ ret.res.ok
    /\ ret.before = 0
    /\ ret.arg[1] >= 2
    /\ current = Len(spine) - 1

----------------------------------------------------------------------------
\* C4: a successful go_next moves the cursor from c to c + 1 and a
\* successful go_prev from c to c - 1; a go_prev right after a successful
\* go_next succeeds and restores the cursor the go_next started from.
C4_NextPrevInverse ==
    [][/\ (ret'.op = "go_next" /\ ret'.res.ok) => current' = current + 1
       /\ (ret'.op = "go_prev" /\ ret'.res.ok) => current' = current - 1
       /\ (ret.op = "go_next" /\ ret.res.ok /\ ret'.op = "go_prev") =>
             (ret'.res.ok /\ current' = ret.before)]_vars

\* C4's case, the scenario's last step: on a spine of four entries go_prev
\* has moved the cursor from index 3 to index 2.
C4_Witness ==
    /\ Built
    /\ Len(spine) = 4
    /\ ret.op = "go_prev"
    /\ ret.res.ok
    /\ ret.before = 3
    /\ current = 2

----------------------------------------------------------------------------
\* The ids whose stored location is the path p.
StoredAt(p) == {k \in DOMAIN resources : resources[k][1] = p}

\* C5 as claimed: for every id of Resources with stored location p,
\* get_resource_mime(id) and get_resource_mime_by_path(p) succeed and return
\* the same media type, also when two ids have the location p with different
\* media types.
C5_MimeByPathAgreesWithEveryId ==
    (Built /\ ret.op = "get_resource_mime_by_path") =>
        \A id \in StoredAt(ret.arg[1]) :
            /\ ret.res.ok
            /\ get_resource_mime(Self, id).ok
            /\ ret.res = get_resource_mime(Self, id)

\* C5 as amended: for every id of Resources with stored location p both
\* calls succeed, get_resource_mime_by_path(p) returns the media type of one
\* of the ids stored at p, and it agrees with get_resource_mime(id) for every
\* such id whenever the ids stored at p all have the same media type (so
\* whenever p is the location of one id only).
C5_MimeByPathAgreesWithSomeId ==
    (Built /\ ret.op = "get_resource_mime_by_path") =>
        LET ids == StoredAt(ret.arg[1])
        IN  /\ \A id \in ids : ret.res.ok /\ get_resource_mime(Self, id).ok
            /\ ids # {} => \E id \in ids : ret.res = get_resource_mime(Self, id)
            /\ (\A j, k \in ids : resources[j][2] = resources[k][2]) =>
                  \A id \in ids : ret.res = get_resource_mime(Self, id)
            /\ ids = {} => ret.res = Err(DocError("path not found"))

\* C5's case: the call was made with a path that is the stored location of
\* two ids with different media types.
C5_Witness ==
    /\ Built
    /\ ret.op = "get_resource_mime_by_path"
    /\ ret.res.ok
    /\ \E j, k \in StoredAt(ret.arg[1]) : resources[j][2] # resources[k][2]

----------------------------------------------------------------------------
\* C6: construction is atomic.  It fails, and gives no document, whenever
\* the container descriptor lacks the rootfile element or its full-path
\* attribute, the package file lacks its manifest, spine or metadata, a
\* manifest item lacks id, href or media-type, a spine item lacks idref or a
\* meta element lacks name or content; a document is given only with all
\* three passes complete: every manifest item in Resources, every spine item
\* in Spine, every metadata child in Metadata.  (It also fails when the
\* archive, the container descriptor or the package file cannot be read.)
C6_ConstructionAtomic ==
    status # "unopened" =>
        /\ Lacks(archive) => status = "failed"
        /\ ~Readable(archive) => status = "failed"
        /\ status = "failed" =>
              /\ ret.op = "new" /\ ~ret.res.ok
              /\ spine = <<>> /\ resources = EmptyMap /\ metadata = EmptyMap
        /\ status = "ok" =>
              /\ DOMAIN resources =
                    {SectionOf(archive, "manifest")[i].attrs["id"] :
                        i \in DOMAIN SectionOf(archive, "manifest")}
              /\ spine = [i \in DOMAIN SectionOf(archive, "spine") |->
                            SectionOf(archive, "spine")[i].attrs["idref"]]
              /\ DOMAIN metadata =
                    {MetaKey(SectionOf(archive, "metadata")[i]) :
                        i \in DOMAIN SectionOf(archive, "metadata")}

\* C6's case: construction failed in the spine pass, on an item without
\* idref that follows a good one, after the manifest pass had filled
\* Resources.
C6_Witness ==
    /\ status = "failed"
    /\ ret.res.err = ExtError("AttributeMissing", "idref")
    /\ SectionOf(archive, "manifest") # <<>>
    /\ Len(SectionOf(archive, "spine")) >= 2
    /\ HasAll(SectionOf(archive, "spine")[1], {"idref"})

----------------------------------------------------------------------------
\* The last item of the manifest with the id.
LastItem(arch, id) ==
    LET m == SectionOf(arch, "manifest")
    IN  m[Max({i \in DOMAIN m : m[i].attrs["id"] = id})]

\* The ids that several items of the manifest have.
DuplicateIds(arch) ==
    LET m == SectionOf(arch, "manifest")
    IN  {m[i].attrs["id"] : i \in {i \in DOMAIN m :
            /\ "id" \in DOMAIN m[i].attrs
            /\ \E j \in DOMAIN m : /\ j # i
                                   /\ "id" \in DOMAIN m[j].attrs
                                   /\ m[j].attrs["id"] = m[i].attrs["id"]}}

\* C7: Resources is last-write-wins.  After construction Resources has one
\* entry for each id of the manifest, made of root_base + href and the
\* media-type of the last item with that id; get_resource_mime,
\* get_current_path and get_resource answer from that entry; and a manifest
\* with a duplicate id, nothing else being wrong, never fails construction.
C7_LastWriteWins ==
    /\ (status = "failed" /\ DuplicateIds(archive) # {}) =>
          (Lacks(archive) \/ ~Readable(archive))
    /\ Built =>
        \A id \in DOMAIN resources :
            LET last == LastItem(archive, id).attrs
                path == root_base \o last["href"]
            IN  /\ resources[id] = <<path, last["media-type"]>>
                /\ (ret.op = "get_resource_mime" /\ ret.arg = Some(id)) =>
                      ret.res = Ok(last["media-type"])
                /\ (ret.op = "get_resource" /\ ret.arg = Some(id)) =>
                      ret.res = get_entry(archive, path)
                /\ (ret.op = "get_current_path" /\ get_current_id(Self) = Ok(id)) =>
                      ret.res = Ok(path)

\* C7's case: the manifest has two items with the same id, another href and
\* another media-type, and the media type of that id was asked for.
C7_Witness ==
    /\ Built
    /\ ret.op = "get_resource_mime"
    /\ ret.arg[1] \in DuplicateIds(archive)
    /\ LET m == SectionOf(archive, "manifest")
       IN  \E i, j \in DOMAIN m :
              /\ i < j
              /\ m[i].attrs["id"] = ret.arg[1]
              /\ m[j].attrs["id"] = ret.arg[1]
              /\ m[i].attrs["href"] # m[j].attrs["href"]
              /\ m[i].attrs["media-type"] # m[j].attrs["media-type"]

----------------------------------------------------------------------------
\* The positions of the separator in a path.
SepAt(p) == {i \in 1..Len(p) : p[i] = Sep}

\* The name between the last two separators of a path followed by the
\* separator (from the start of the path when it has one separator only),
\* and the separator alone for a path without one: the second-to-last
\* segment of the path, when it has two segments, plus the separator.
OneLevelBase(p) ==
    IF SepAt(p) = {} THEN <<Sep>>
    ELSE LET last == Max(SepAt(p))
             before == Max((SepAt(p) \ {last}) \cup {0})
         IN  SubSeq(p, before + 1, last)

\* The segments of a path: with a build whose split drops an empty last
\* segment, a path that ends in the separator has the segments of the path
\* without that separator.
SegmentedPath(p, keeps_trailing) ==
    IF ~keeps_trailing /\ p # <<>> /\ p[Len(p)] = Sep
    THEN SubSeq(p, 1, Len(p) - 1)
    ELSE p

\* C8: root_base looks back one segment.  The package-file path is the
\* container's full-path; root_base is its second-to-last segment plus the
\* separator, the separator alone when the path has a single segment, and
\* never holds an outer segment; every stored location is root_base
\* followed by the href of the item it comes from.
C8_RootBaseOneSegment ==
    Built =>
        /\ Some(root_file) = PackagePath(archive)
        /\ \E keeps_trailing \in BOOLEAN :
              root_base = OneLevelBase(SegmentedPath(root_file, keeps_trailing))
        /\ Len(root_base) >= 1
        /\ SepAt(root_base) = {Len(root_base)}
        /\ \A id \in DOMAIN resources :
              \E i \in DOMAIN SectionOf(archive, "manifest") :
                  /\ SectionOf(archive, "manifest")[i].attrs["id"] = id
                  /\ resources[id][1] =
                        root_base \o SectionOf(archive, "manifest")[i].attrs["href"]

\* C8's case: a package file two directories deep, a/b/a: root_base is b/,
\* the outer directory a is dropped, and the stored locations are not where
\* the archive has the files.
C8_Witness ==
    /\ Built
    /\ root_file = <<"a", Sep, "b", Sep, "a">>
    /\ root_base = <<"b", Sep>>
    /\ root_base # TrueDir(root_file)
    /\ resources # EmptyMap
    /\ ret.op = "get_current"
    /\ ret.res = Err(ExtError("NotFound", ""))

----------------------------------------------------------------------------
----------------------------------------------------------------------------
\* C10: once the document is built, no call changes Resources, Spine,
\* Metadata, root_base, the package-file path or the archive; the cursor
\* changes only in a go_next, go_prev or set_current_page that succeeds, so
\* no resource, cover or current-item accessor moves it.
C10_FrameAfterConstruction ==
    [][Built =>
          /\ Built'
          /\ UNCHANGED <<archive, spine, resources, metadata, root_base, root_file>>
          /\ current' # current => (ret'.op \in NavOps /\ ret'.res.ok)]_vars

\* C10's case: with the cursor moved off 0, the cover was read from the
\* archive.
C10_Witness ==
    /\ Built
    /\ current > 0
    /\ ret.op = "get_cover"
    /\ ret.res.ok
    /\ ret.before = current

====
